---- MODULE Spec2Model ----
(***************************************************************************)
(* Model of the two vision processors of hingebotpublic:                   *)
(*   src/grok_vision_processor.py   (variant "grok")                       *)
(*   src/openai_vision_processor.py (variant "openai")                     *)
(*                                                                         *)
(* Python strings are sequences of atoms.  Text that comes from the        *)
(* provider, dictionary keys and decision values are sequences of single   *)
(* characters, so case conversion, substring search and JSON parsing work  *)
(* on characters.  Fixed blocks of locally produced text (the prompt        *)
(* template, the prefixes of error messages) are single atoms.             *)
(***************************************************************************)
EXTENDS Integers, Sequences, FiniteSets, TLC

(***************************************************************************)
(* Bounds of the model.                                                    *)
(***************************************************************************)
MaxPhotos == 2
MaxBodyLen == 3

(***************************************************************************)
(* Text helpers: str.upper, str.lower, str.strip, the "in" operator on     *)
(* strings, str(int).                                                      *)
(***************************************************************************)
Lowers == <<"a","b","c","d","e","f","g","h","i","j","k","l","m",
            "n","o","p","q","r","s","t","u","v","w","x","y","z">>
Uppers == <<"A","B","C","D","E","F","G","H","I","J","K","L","M",
            "N","O","P","Q","R","S","T","U","V","W","X","Y","Z">>

UpperChar(c) ==
    IF \E i \in 1..26 : Lowers[i] = c
    THEN Uppers[CHOOSE i \in 1..26 : Lowers[i] = c]
    ELSE c

LowerChar(c) ==
    IF \E i \in 1..26 : Uppers[i] = c
    THEN Lowers[CHOOSE i \in 1..26 : Uppers[i] = c]
    ELSE c

Upper(s) == [i \in 1..Len(s) |-> UpperChar(s[i])]
Lower(s) == [i \in 1..Len(s) |-> LowerChar(s[i])]

\* needle in haystack
Contains(hay, needle) ==
    \E i \in 0..(Len(hay) - Len(needle)) :
        SubSeq(hay, i + 1, i + Len(needle)) = needle

Whitespace == {" ", "\n", "\t", "\r"}

\* str.strip(): drop leading and trailing whitespace
Strip(s) ==
    IF \A i \in 1..Len(s) : s[i] \in Whitespace
    THEN <<>>
    ELSE LET a == CHOOSE i \in 1..Len(s) :
                      s[i] \notin Whitespace /\ \A k \in 1..(i-1) : s[k] \in Whitespace
             b == CHOOSE i \in 1..Len(s) :
                      s[i] \notin Whitespace /\ \A k \in (i+1)..Len(s) : s[k] \in Whitespace
         IN  SubSeq(s, a, b)

DigitChars == <<"0","1","2","3","4","5","6","7","8","9">>
DigitSet == {DigitChars[i] : i \in 1..10}
DigitVal(c) == (CHOOSE i \in 1..10 : DigitChars[i] = c) - 1

\* str(n) for n >= 0
RECURSIVE IntToStr(_)
IntToStr(n) ==
    IF n < 10 THEN <<DigitChars[n + 1]>>
    ELSE IntToStr(n \div 10) \o <<DigitChars[(n % 10) + 1]>>

\* int(digits)
RECURSIVE StrToInt(_)
StrToInt(ds) ==
    IF Len(ds) = 0 THEN 0
    ELSE 10 * StrToInt(SubSeq(ds, 1, Len(ds) - 1)) + DigitVal(ds[Len(ds)])

(***************************************************************************)
(* Python values.  Every value has the same four fields, so that any two   *)
(* values can be compared.  A float keeps the text of its literal.  A      *)
(* list or dict nested inside a parsed body keeps its source text.         *)
(***************************************************************************)
PyStr(s)     == [t |-> "str",   s |-> s,    n |-> 0, items |-> <<>>]
PyInt(k)     == [t |-> "int",   s |-> <<>>, n |-> k, items |-> <<>>]
PyFloat(lit) == [t |-> "float", s |-> lit,  n |-> 0, items |-> <<>>]
PyBool(b)    == [t |-> "bool",  s |-> <<>>, n |-> IF b THEN 1 ELSE 0, items |-> <<>>]
PyNone       == [t |-> "none",  s |-> <<>>, n |-> 0, items |-> <<>>]
PyNested(kind, raw) == [t |-> kind, s |-> raw, n |-> 0, items |-> <<>>]
PyList(xs)   == [t |-> "list",  s |-> <<>>, n |-> 0, items |-> xs]

EmptyDict == [k \in {} |-> PyNone]
\* d[key] = v on a dict
DictSet(d, key, v) ==
    [k \in (DOMAIN d) \cup {key} |-> IF k = key THEN v ELSE d[k]]

(***************************************************************************)
(* json.loads, as the scanner of the standard library reads a document:    *)
(* whitespace, a value, whitespace, end of text.  A result is              *)
(*   [ok, v, d, next]: ok is FALSE where json.JSONDecodeError is raised;   *)
(*   v the value; d the key -> value mapping when the value is an object;  *)
(*   next the index after the value.                                       *)
(***************************************************************************)
PFail == [ok |-> FALSE, v |-> PyNone, d |-> EmptyDict, next |-> 0]
POk(v, d, next) == [ok |-> TRUE, v |-> v, d |-> d, next |-> next]

\* s[i:i+1]: the empty atom past the end
At(s, i) == IF i >= 1 /\ i <= Len(s) THEN s[i] ELSE ""

StartsWithAt(s, i, lit) ==
    i + Len(lit) - 1 <= Len(s) /\ SubSeq(s, i, i + Len(lit) - 1) = lit

\* the first index >= i that holds no whitespace
SkipWs(s, i) ==
    CHOOSE j \in i..(Len(s) + 1) :
        /\ \A k \in i..(j - 1) : s[k] \in Whitespace
        /\ (j = Len(s) + 1 \/ s[j] \notin Whitespace)

\* the first index >= i that holds no digit
DigitsEnd(s, i) ==
    CHOOSE j \in i..(Len(s) + 1) :
        /\ \A k \in i..(j - 1) : s[k] \in DigitSet
        /\ (j = Len(s) + 1 \/ s[j] \notin DigitSet)

\* NUMBER_RE = (-?(?:0|[1-9]\d*))(\.\d+)?([eE][-+]?\d+)?
MatchNumber(s, i) ==
    LET p       == IF At(s, i) = "-" THEN i + 1 ELSE i
        c       == At(s, p)
        intEnd  == IF c = "0" THEN p + 1 ELSE DigitsEnd(s, p)
        hasFrac == At(s, intEnd) = "." /\ At(s, intEnd + 1) \in DigitSet
        fracEnd == IF hasFrac THEN DigitsEnd(s, intEnd + 1) ELSE intEnd
        q       == IF At(s, fracEnd + 1) \in {"+", "-"} THEN fracEnd + 2 ELSE fracEnd + 1
        hasExp  == At(s, fracEnd) \in {"e", "E"} /\ At(s, q) \in DigitSet
        expEnd  == IF hasExp THEN DigitsEnd(s, q) ELSE fracEnd
        mag     == StrToInt(SubSeq(s, p, intEnd - 1))
    IN  IF c \notin DigitSet THEN PFail
        ELSE IF hasFrac \/ hasExp
             THEN POk(PyFloat(SubSeq(s, i, expEnd - 1)), EmptyDict, expEnd)
             ELSE POk(PyInt(IF p > i THEN 0 - mag ELSE mag), EmptyDict, intEnd)

HexSet == DigitSet \cup {"a","b","c","d","e","f","A","B","C","D","E","F"}
SimpleEscapes == {"\"", "\\", "/", "b", "f", "n", "r", "t"}
Unescape(c) ==
    CASE c = "n" -> "\n" [] c = "r" -> "\r" [] c = "t" -> "\t"
      [] c = "f" -> "\f" [] c = "b" -> "<BS>" [] OTHER -> c

\* py_scanstring with strict = True; i is the index after the opening quote.
\* A \uXXXX escape is kept as its five atoms.
RECURSIVE ScanString(_, _, _)
ScanString(s, i, acc) ==
    LET c == At(s, i)
    IN  IF c = "" THEN PFail
        ELSE IF c = "\"" THEN POk(PyStr(acc), EmptyDict, i + 1)
        ELSE IF c = "\\"
             THEN LET e == At(s, i + 1)
                  IN  IF e \in SimpleEscapes
                      THEN ScanString(s, i + 2, Append(acc, Unescape(e)))
                      ELSE IF e = "u" /\ \A k \in (i + 2)..(i + 5) : At(s, k) \in HexSet
                      THEN ScanString(s, i + 6, acc \o SubSeq(s, i + 1, i + 5))
                      ELSE PFail
        ELSE IF c \in {"\n", "\t", "\r", "\f"} THEN PFail
        ELSE ScanString(s, i + 1, Append(acc, c))

RECURSIVE ScanOnce(_, _)
RECURSIVE ObjMembers(_, _, _)
RECURSIVE ArrItems(_, _)

\* JSONObject, from the opening quote of a key at index i; acc holds the
\* pairs read so far (a repeated key keeps its last value)
ObjMembers(s, i, acc) ==
    LET key   == ScanString(s, i + 1, <<>>)
        colon == SkipWs(s, key.next)
        val   == ScanOnce(s, SkipWs(s, colon + 1))
        sep   == SkipWs(s, val.next)
        more  == SkipWs(s, sep + 1)
        d     == DictSet(acc, key.v.s, val.v)
    IN  IF ~key.ok THEN PFail
        ELSE IF At(s, colon) # ":" THEN PFail
        ELSE IF ~val.ok THEN PFail
        ELSE IF At(s, sep) = "}" THEN POk(PyNone, d, sep + 1)
        ELSE IF At(s, sep) # "," THEN PFail
        ELSE IF At(s, more) # "\"" THEN PFail
        ELSE ObjMembers(s, more, d)

\* JSONArray, from the first character of an element at index i
ArrItems(s, i) ==
    LET val == ScanOnce(s, i)
        sep == SkipWs(s, val.next)
    IN  IF ~val.ok THEN PFail
        ELSE IF At(s, sep) = "]" THEN POk(PyNone, EmptyDict, sep + 1)
        ELSE IF At(s, sep) # "," THEN PFail
        ELSE ArrItems(s, SkipWs(s, sep + 1))

\* py_make_scanner._scan_once
ScanOnce(s, i) ==
    LET c == At(s, i)
    IN  CASE c = "\"" -> ScanString(s, i + 1, <<>>)
          [] c = "{"  ->
                LET j == SkipWs(s, i + 1)
                    r == IF At(s, j) = "}" THEN POk(PyNone, EmptyDict, j + 1)
                         ELSE IF At(s, j) = "\"" THEN ObjMembers(s, j, EmptyDict)
                         ELSE PFail
                IN  IF r.ok
                    THEN POk(PyNested("dict", SubSeq(s, i, r.next - 1)), r.d, r.next)
                    ELSE PFail
          [] c = "["  ->
                LET j == SkipWs(s, i + 1)
                    r == IF At(s, j) = "]" THEN POk(PyNone, EmptyDict, j + 1)
                         ELSE ArrItems(s, j)
                IN  IF r.ok
                    THEN POk(PyNested("list", SubSeq(s, i, r.next - 1)), EmptyDict, r.next)
                    ELSE PFail
          [] c = "n" /\ StartsWithAt(s, i, <<"n","u","l","l">>) ->
                POk(PyNone, EmptyDict, i + 4)
          [] c = "t" /\ StartsWithAt(s, i, <<"t","r","u","e">>) ->
                POk(PyBool(TRUE), EmptyDict, i + 4)
          [] c = "f" /\ StartsWithAt(s, i, <<"f","a","l","s","e">>) ->
                POk(PyBool(FALSE), EmptyDict, i + 5)
          [] c = "N" /\ StartsWithAt(s, i, <<"N","a","N">>) ->
                POk(PyFloat(<<"N","a","N">>), EmptyDict, i + 3)
          [] c = "I" /\ StartsWithAt(s, i, <<"I","n","f","i","n","i","t","y">>) ->
                POk(PyFloat(<<"I","n","f","i","n","i","t","y">>), EmptyDict, i + 8)
          [] c = "-" /\ StartsWithAt(s, i, <<"-","I","n","f","i","n","i","t","y">>) ->
                POk(PyFloat(<<"-","I","n","f","i","n","i","t","y">>), EmptyDict, i + 9)
          [] OTHER -> MatchNumber(s, i)

\* JSONDecoder.decode
JsonLoads(s) ==
    LET r == ScanOnce(s, SkipWs(s, 1))
    IN  IF r.ok /\ SkipWs(s, r.next) = Len(s) + 1 THEN r ELSE PFail

\* the parsed value is a dict
IsDict(r) == r.ok /\ r.v.t = "dict"

(***************************************************************************)
(* Dictionary keys and the strings the code compares or returns.           *)
(***************************************************************************)
K_decision         == <<"d","e","c","i","s","i","o","n">>
K_reasoning        == <<"r","e","a","s","o","n","i","n","g">>
K_photo_count      == <<"p","h","o","t","o","_","c","o","u","n","t">>
K_confidence       == <<"c","o","n","f","i","d","e","n","c","e">>
K_criterion        == <<"c","r","i","t","e","r","i","o","n">>
K_prompt           == <<"p","r","o","m","p","t">>
K_model            == <<"m","o","d","e","l">>
K_api_provider     == <<"a","p","i","_","p","r","o","v","i","d","e","r">>
K_error            == <<"e","r","r","o","r">>
K_raw_response     == <<"r","a","w","_","r","e","s","p","o","n","s","e">>
K_photos_processed == <<"p","h","o","t","o","s","_","p","r","o","c","e","s","s","e","d">>
K_timestamp        == <<"t","i","m","e","s","t","a","m","p">>
K_input_photos_dir == <<"i","n","p","u","t","_","p","h","o","t","o","s","_","d","i","r">>

YES   == <<"Y","E","S">>
NO    == <<"N","O">>
ERROR == <<"E","R","R","O","R">>
GROK  == <<"g","r","o","k">>
HALF  == <<"0",".","5">>

\* a dict literal {k1: v1, ...} from its pairs, later pairs override
MkDict(pairs) ==
    [k \in {pairs[i][1] : i \in DOMAIN pairs} |->
        pairs[CHOOSE i \in DOMAIN pairs :
                 pairs[i][1] = k /\ \A j \in DOMAIN pairs : pairs[j][1] = k => j <= i][2]]

Has(d, k) == k \in DOMAIN d

(***************************************************************************)
(* The prompt texts.  The fixed blocks of a template are single atoms.     *)
(***************************************************************************)
\* ocr_text and ocr_text.strip()
Truthy(ocr) == ocr.t = "str" /\ Strip(ocr.s) # <<>>

GrokPrompt(criterion, ocr) ==
    <<"<grok prompt: research preamble and attractiveness brief>">>
    \o (IF Truthy(ocr)
        THEN <<"<attached profile text, weight lightly>">> \o ocr.s \o <<"\n\n">>
        ELSE <<>>)
    \o <<"<grok prompt: JSON answer instructions>">>

OpenAIPrompt(criterion) ==
    <<"<prompt: research preamble, criterion: >">>
    \o criterion
    \o <<"<prompt: JSON answer instructions>">>

FullPrompt(v, criterion, ocr) ==
    IF v = "grok" THEN GrokPrompt(criterion, ocr) ELSE OpenAIPrompt(criterion)

(***************************************************************************)
(* What the provider call can do.  An outcome is                           *)
(*   [kind, msg, status, text, shape, content]                             *)
(* kind "raise": the call raised (connection error, timeout; for the       *)
(*   OpenAI client also any API status error), str(e) = msg.               *)
(* kind "response": a response arrived.  For grok it has an HTTP status    *)
(*   and a body text; with status 200 the body has a shape: "ok" when      *)
(*   body["choices"][0]["message"]["content"] is the string content, or    *)
(*   the place where reading content fails.                                *)
(***************************************************************************)
BadShapes(v) ==
    IF v = "grok"
    THEN {"not_json", "no_choices", "empty_choices", "no_message", "no_content", "null_content"}
    ELSE {"empty_choices", "null_content"}

\* str(e) of the exception that reading the content raises
ShapeMsg(shape) ==
    CASE shape = "not_json"      -> <<"Expecting value: line 1 column 1 (char 0)">>
      [] shape = "no_choices"    -> <<"'choices'">>
      [] shape = "empty_choices" -> <<"list index out of range">>
      [] shape = "no_message"    -> <<"'message'">>
      [] shape = "no_content"    -> <<"'content'">>
      [] OTHER                   -> <<"'NoneType' object has no attribute 'strip'">>

\* str(e) of the TypeError of result["photo_count"] = ... on a value that is no dict
AssignMsg(t) ==
    CASE t = "list"  -> <<"list indices must be integers or slices, not str">>
      [] t = "str"   -> <<"'str' object does not support item assignment">>
      [] t = "int"   -> <<"'int' object does not support item assignment">>
      [] t = "float" -> <<"'float' object does not support item assignment">>
      [] t = "bool"  -> <<"'bool' object does not support item assignment">>
      [] OTHER       -> <<"'NoneType' object does not support item assignment">>

(***************************************************************************)
(* analyze_profile                                                         *)
(***************************************************************************)
\* if not photos: return {...}
NoPhotosRecord ==
    MkDict(<< <<K_decision, PyStr(NO)>>,
              <<K_reasoning, PyStr(<<"No photos available for analysis">>)>>,
              <<K_photo_count, PyInt(0)>>,
              <<K_error, PyStr(<<"No photos provided">>)>> >>)

\* the keys every record built after the request carries
Stamp(v, n, criterion, prompt, model) ==
    << <<K_photo_count, PyInt(n)>>,
       <<K_criterion, PyStr(criterion)>>,
       <<K_prompt, PyStr(prompt)>> >>
    \o (IF v = "grok"
        THEN << <<K_model, PyStr(model)>>, <<K_api_provider, PyStr(GROK)>> >>
        ELSE << >>)

\* a variant of HttpErrorRecord that leaves the response body out of 'error'
HttpErrorRecord_NoBody(n, criterion, prompt, status, text) ==
    MkDict(<< <<K_decision, PyStr(ERROR)>>,
              <<K_reasoning, PyStr(<<"API HTTP error: ">> \o IntToStr(status))>>,
              <<K_photo_count, PyInt(n)>>,
              <<K_criterion, PyStr(criterion)>>,
              <<K_prompt, PyStr(prompt)>>,
              <<K_error, PyStr(<<"HTTP ">> \o IntToStr(status))>> >>)

\* if response.status_code != 200: return {...}   (grok only)
HttpErrorRecord(n, criterion, prompt, status, text) ==
    MkDict(<< <<K_decision, PyStr(ERROR)>>,
              <<K_reasoning, PyStr(<<"API HTTP error: ">> \o IntToStr(status))>>,
              <<K_photo_count, PyInt(n)>>,
              <<K_criterion, PyStr(criterion)>>,
              <<K_prompt, PyStr(prompt)>>,
              <<K_error, PyStr(<<"HTTP ">> \o IntToStr(status) \o <<": ">> \o text)>> >>)

\* a variant of ExceptionRecord that counts no photo when the call failed
ExceptionRecord_ZeroCount(v, n, criterion, prompt, model, prefix, msg) ==
    MkDict(<< <<K_decision, PyStr(ERROR)>>,
              <<K_reasoning, PyStr(prefix \o msg)>> >>
           \o Stamp(v, 0, criterion, prompt, model)
           \o << <<K_error, PyStr(msg)>> >>)

\* the two except clauses of grok, the one except clause of openai
ExceptionRecord(v, n, criterion, prompt, model, prefix, msg) ==
    MkDict(<< <<K_decision, PyStr(ERROR)>>,
              <<K_reasoning, PyStr(prefix \o msg)>> >>
           \o Stamp(v, n, criterion, prompt, model)
           \o << <<K_error, PyStr(msg)>> >>)

\* a variant of AdoptParsed in which the keys of the body win
AdoptParsed_BodyWins(v, d, n, criterion, prompt, model) ==
    LET st == Stamp(v, n, criterion, prompt, model)
    IN  [k \in (DOMAIN d) \cup {st[i][1] : i \in DOMAIN st} |->
            IF k \in DOMAIN d
            THEN d[k]
            ELSE st[CHOOSE i \in DOMAIN st : st[i][1] = k][2]]

\* result = json.loads(result_text); result[...] = ...; return result
AdoptParsed(v, d, n, criterion, prompt, model) ==
    LET st == Stamp(v, n, criterion, prompt, model)
    IN  [k \in (DOMAIN d) \cup {st[i][1] : i \in DOMAIN st} |->
            IF \E i \in DOMAIN st : st[i][1] = k
            THEN st[CHOOSE i \in DOMAIN st : st[i][1] = k][2]
            ELSE d[k]]

\* a variant of FallbackDecision without the upper-casing
FallbackDecision_CaseSensitive(result_text) ==
    IF Contains(result_text, YES) THEN YES ELSE NO

\* decision = "YES" if "YES" in result_text.upper() else "NO"
FallbackDecision(result_text) ==
    IF Contains(Upper(result_text), YES) THEN YES ELSE NO

\* except json.JSONDecodeError: return {...}
FallbackRecord(v, result_text, n, criterion, prompt, model) ==
    MkDict(<< <<K_decision, PyStr(FallbackDecision(result_text))>>,
              <<K_reasoning, PyStr(result_text)>> >>
           \o Stamp(v, n, criterion, prompt, model)
           \o << <<K_confidence, PyFloat(HALF)>>,
                 <<K_raw_response, PyStr(result_text)>> >>)

\* result_text = ....strip(); try: json.loads ... except json.JSONDecodeError
Normalize(v, content, n, criterion, prompt, model) ==
    LET result_text == Strip(content)
        r == JsonLoads(result_text)
    IN  IF ~r.ok
        THEN FallbackRecord(v, result_text, n, criterion, prompt, model)
        ELSE IF IsDict(r)
        THEN AdoptParsed(v, r.d, n, criterion, prompt, model)
        ELSE \* TypeError, caught by the outer "except Exception"
             ExceptionRecord(v, n, criterion, prompt, model,
                             <<"API error: ">>, AssignMsg(r.v.t))

\* the prefix of the reasoning of an exception record
RaisePrefix(v) ==
    IF v = "grok" THEN <<"API request error: ">> ELSE <<"API error: ">>
ShapePrefix(v, shape) ==
    IF v = "grok" /\ shape = "not_json"
    THEN <<"API request error: ">> ELSE <<"API error: ">>

\* the try block, from the provider call to the return
AfterCall(v, n, criterion, prompt, model, out) ==
    IF out.kind = "raise"
    THEN ExceptionRecord(v, n, criterion, prompt, model, RaisePrefix(v), out.msg)
    ELSE IF v = "grok" /\ out.status # 200
    THEN HttpErrorRecord(n, criterion, prompt, out.status, out.text)
    ELSE IF out.shape # "ok"
    THEN ExceptionRecord(v, n, criterion, prompt, model,
                         ShapePrefix(v, out.shape), ShapeMsg(out.shape))
    ELSE Normalize(v, out.content, n, criterion, prompt, model)

\* analyze_profile(photos, criterion, model, aesthetic_mode, ocr_text)
AnalyzeProfile(v, photos, criterion, model, ocr, out) ==
    IF Len(photos) = 0
    THEN NoPhotosRecord
    ELSE AfterCall(v, Len(photos), criterion,
                   FullPrompt(v, criterion, ocr), model, out)

(***************************************************************************)
(* load_photos_from_directory.  A directory entry is                       *)
(*   [name, size_mb, readable]; readable is FALSE where encode_image       *)
(*   raises.  A photo keeps the filename and the size (the path and the    *)
(*   base64 text play no part in the records returned).                    *)
(***************************************************************************)
SupportedFormats ==
    { <<".","j","p","g">>, <<".","j","p","e","g">>, <<".","p","n","g">>,
      <<".","g","i","f">>, <<".","w","e","b","p">> }
DuplicateMarker == <<"_","D","U","P","L","I","C","A","T","E">>

\* PurePath.suffix
Suffix(name) ==
    LET dots == {i \in 1..Len(name) : name[i] = "."}
    IN  IF dots = {} THEN <<>>
        ELSE LET i == CHOOSE d \in dots : \A e \in dots : e <= d
             IN  IF i > 1 /\ i < Len(name) THEN SubSeq(name, i, Len(name)) ELSE <<>>

\* a variant of Qualifies that compares the extension as it is written
Qualifies_CaseSensitive(f) ==
    /\ Suffix(f.name) \in SupportedFormats
    /\ ~Contains(f.name, DuplicateMarker)
    /\ f.readable

\* the body of the for loop: the entry is appended or skipped
Qualifies(f) ==
    /\ Lower(Suffix(f.name)) \in SupportedFormats
    /\ ~Contains(f.name, DuplicateMarker)
    /\ f.readable

RECURSIVE LoadFiles(_)
LoadFiles(files) ==
    IF Len(files) = 0 THEN <<>>
    ELSE (IF Qualifies(Head(files))
          THEN << [filename |-> Head(files).name, size_mb |-> Head(files).size_mb] >>
          ELSE <<>>)
         \o LoadFiles(Tail(files))

\* fs = [session, photos_dir, person, files]: which directories exist, and
\* the entries of the person folder in the order glob yields them
LoadPhotosFromDirectory(fs) ==
    IF ~fs.person THEN <<>> ELSE LoadFiles(fs.files)

(***************************************************************************)
(* process_session_photos: the record of the empty case, and the metadata  *)
(* added to the record analyze_profile returned.                           *)
(***************************************************************************)
MTime == <<"1","7","0","0",".","5">>
GPT4O == <<"g","p","t","-","4","o">>
GrokDefaultModel == <<"g","r","o","k","-","2","-","v","i","s","i","o","n","-","1","2","1","2">>

\* str(os.path.getmtime(photos_dir)) if Path(photos_dir).exists() else None
Timestamp(fs) == IF fs.photos_dir THEN PyStr(MTime) ELSE PyNone

\* [{"filename": ..., "size_mb": ...} for photo in photos]
PhotosProcessed(photos) == PyList(photos)

\* a variant of EmptyInputRecord that reports the empty input as an error
EmptyInputRecord_AsError(v, criterion, model, fs) ==
    MkDict(<< <<K_decision, PyStr(ERROR)>>,
              <<K_reasoning, PyStr(<<"No photos found in person directory">>)>>,
              <<K_photo_count, PyInt(0)>>,
              <<K_photos_processed, PyList(<<>>)>>,
              <<K_criterion, PyStr(criterion)>>,
              <<K_prompt, PyStr(OpenAIPrompt(criterion))>>,
              <<K_timestamp, Timestamp(fs)>> >>)

EmptyInputRecord(v, criterion, model, fs) ==
    MkDict(<< <<K_decision, PyStr(NO)>>,
              <<K_reasoning, PyStr(<<"No photos found in person directory">>)>>,
              <<K_photo_count, PyInt(0)>>,
              <<K_photos_processed, PyList(<<>>)>>,
              <<K_criterion, PyStr(criterion)>> >>
           \o (IF v = "grok"
               THEN << <<K_model, PyStr(model)>>, <<K_api_provider, PyStr(GROK)>> >>
               ELSE << >>)
           \o << <<K_prompt, PyStr(OpenAIPrompt(criterion))>>,
                 <<K_timestamp, Timestamp(fs)>> >>)

\* a variant of AddMetadata that keeps a photos_processed the record
\* already holds
AddMetadata_KeepBody(rec, photos, criterion, dirpath, fs) ==
    DictSet(DictSet(DictSet(DictSet(rec,
        K_photos_processed,
            IF Has(rec, K_photos_processed) THEN rec[K_photos_processed]
            ELSE PhotosProcessed(photos)),
        K_timestamp, Timestamp(fs)),
        K_criterion, PyStr(criterion)),
        K_input_photos_dir, PyStr(dirpath))

\* result["photos_processed"] = ...; result["timestamp"] = ...;
\* result["criterion"] = criterion; result["input_photos_dir"] = photos_dir
AddMetadata(rec, photos, criterion, dirpath, fs) ==
    DictSet(DictSet(DictSet(DictSet(rec,
        K_photos_processed, PhotosProcessed(photos)),
        K_timestamp, Timestamp(fs)),
        K_criterion, PyStr(criterion)),
        K_input_photos_dir, PyStr(dirpath))

\* the record process_session_photos builds from the list the loader
\* returned: the record of the empty case, or what analyze_profile returned
\* with the metadata added
BuildResult(v, loaded, criterion, model, ocr, dirpath, fs, out) ==
    IF Len(loaded) = 0
    THEN EmptyInputRecord(v, criterion, model, fs)
    ELSE AddMetadata(AnalyzeProfile(v, loaded, criterion, model, ocr, out),
                     loaded, criterion, dirpath, fs)

\* the record process_session_photos builds before it saves it: what the
\* loader found, what the provider call did, the metadata
RunResult(v, criterion, model, ocr, dirpath, fs, out) ==
    BuildResult(v, LoadPhotosFromDirectory(fs), criterion, model, ocr, dirpath, fs, out)

(***************************************************************************)
(* The credential.  environ is the value of the variant's environment      *)
(* variable: PyNone when unset, else a string.                             *)
(***************************************************************************)
\* grok:   (api_key or os.getenv('XAI_API_KEY', '')).strip() is empty -> ValueError
\* openai: OpenAI(api_key=None or os.getenv('OPENAI_API_KEY')) raises when the
\*         key it is given and the environment variable are both None
ConstructRaises(v, env) ==
    IF v = "grok"
    THEN (IF env.t = "str" THEN Strip(env.s) ELSE <<>>) = <<>>
    ELSE env.t = "none"

ConstructMsg(v) ==
    IF v = "grok"
    THEN <<"XAI_API_KEY must be set in environment or passed as parameter">>
    ELSE <<"The api_key client option must be set">>

\* a key the provider accepts
UsableKey(env) == env.t = "str" /\ Strip(env.s) # <<>>

(***************************************************************************)
(* main: what it prints.  The confidence line is                           *)
(*   if result.get('confidence'): print(f"... {result['confidence']:.2f}") *)
(* and the format raises on a value that is no number.                     *)
(***************************************************************************)
FloatIsZero(lit) ==
    /\ lit[1] \in DigitSet \cup {"-"}
    /\ \A i \in 1..Len(lit) :
          (\A k \in 1..i : lit[k] \notin {"e", "E"}) /\ lit[i] \in DigitSet => lit[i] = "0"

PyTruthy(x) ==
    CASE x.t = "none"  -> FALSE
      [] x.t = "bool"  -> x.n = 1
      [] x.t = "int"   -> x.n # 0
      [] x.t = "float" -> ~FloatIsZero(x.s)
      [] x.t = "str"   -> x.s # <<>>
      [] OTHER         -> At(x.s, SkipWs(x.s, 2)) \notin {"]", "}"}

PrintRaises(res) ==
    /\ Has(res, K_confidence)
    /\ PyTruthy(res[K_confidence])
    /\ res[K_confidence].t \in {"str", "list", "dict"}

(***************************************************************************)
(* Inputs of the model.                                                    *)
(***************************************************************************)
BodyFull ==
    <<"{","\"","d","e","c","i","s","i","o","n","\"",":","\"","Y","E","S","\"",",","\"","r","e","a","s","o","n","i","n","g","\"",":","\"","o","k","\"",",","\"","p","h","o","t","o","_","c","o","u","n","t","\"",":","7",",","\"","c","o","n","f","i","d","e","n","c","e","\"",":","0",".","9","}">>
BodyMaybe ==
    <<"{","\"","d","e","c","i","s","i","o","n","\"",":","\"","M","A","Y","B","E","\"",",","\"","r","e","a","s","o","n","i","n","g","\"",":","\"","h","m","\"","}">>
BodyNoDecision ==
    <<"{","\"","r","e","a","s","o","n","i","n","g","\"",":","\"","x","\"","}">>
BodyLowerYes ==
    <<" ","{","\"","d","e","c","i","s","i","o","n","\"",":"," ","\"","y","e","s","\"","}","\n">>
BodyEcho ==
    <<"{","\"","d","e","c","i","s","i","o","n","\"",":","\"","N","O","\"",",","\"","c","r","i","t","e","r","i","o","n","\"",":","\"","c","\"",",","\"","p","r","o","m","p","t","\"",":","\"","q","\"",",","\"","m","o","d","e","l","\"",":","\"","m","\"",",","\"","a","p","i","_","p","r","o","v","i","d","e","r","\"",":","\"","p","\"",",","\"","t","i","m","e","s","t","a","m","p","\"",":","\"","t","\"",",","\"","p","h","o","t","o","s","_","p","r","o","c","e","s","s","e","d","\"",":","[","]",",","\"","i","n","p","u","t","_","p","h","o","t","o","s","_","d","i","r","\"",":","\"","d","\"","}">>
BodyBigConfidence ==
    <<"{","\"","d","e","c","i","s","i","o","n","\"",":","\"","Y","E","S","\"",",","\"","c","o","n","f","i","d","e","n","c","e","\"",":","1",".","5","}">>
BodyTextConfidence ==
    <<"{","\"","d","e","c","i","s","i","o","n","\"",":","\"","N","O","\"",",","\"","c","o","n","f","i","d","e","n","c","e","\"",":","\"","h","i","g","h","\"","}">>
BodyErrorDecision ==
    <<"{","\"","d","e","c","i","s","i","o","n","\"",":","\"","E","R","R","O","R","\"",",","\"","e","r","r","o","r","\"",":","\"","e","\"","}">>
BodyJsonString ==
    <<"\"","Y","e","s","\"">>
BodyJsonList ==
    <<"[","\"","N","O","\"","]">>
BodyJsonNumber ==
    <<"7">>
BodyJsonNull ==
    <<"n","u","l","l">>
BodyProse ==
    <<"Y","e","s",","," ","o","k">>
BodyProseNo ==
    <<"n","o","t"," ","a"," ","m","a","t","c","h">>
BodyTruncated ==
    <<"{","\"","d","e","c","i","s","i","o","n","\"",":","\"","Y","E","S","\"">>

BodyPadded ==
    <<" ","y","E","s","\n">>

\* a body that claims a count and a manifest of its own
BodyCounts ==
    <<"{","\"","p","h","o","t","o","_","c","o","u","n","t","\"",":","9",",","\"","p","h","o","t","o","s","_","p","r","o","c","e","s","s","e","d","\"",":","[","]","}">>

\* the bodies of a second run: an object, a value that is no object, prose
SecondRunBodies == {BodyCounts, BodyJsonNumber, BodyProse}

SampleBodies ==
    { BodyFull, BodyMaybe, BodyNoDecision, BodyLowerYes, BodyEcho, BodyBigConfidence,
      BodyTextConfidence, BodyErrorDecision, BodyJsonString, BodyJsonList,
      BodyJsonNumber, BodyJsonNull, BodyProse, BodyProseNo, BodyTruncated,
      BodyPadded, <<>> }

\* every text of at most MaxBodyLen characters over a small alphabet
BodyAlphabet == {"y", "E", "s", "\"", "1", "{", "}", " "}
ShortBodies == UNION {[1..n -> BodyAlphabet] : n \in 0..MaxBodyLen}

BlankOutcome ==
    [kind |-> "raise", msg |-> <<>>, status |-> 0, text |-> <<>>,
     shape |-> "ok", content |-> <<>>]
Raised(msg) == [BlankOutcome EXCEPT !.msg = msg]
Responded(status, text, shape, content) ==
    [BlankOutcome EXCEPT !.kind = "response", !.status = status, !.text = text,
                         !.shape = shape, !.content = content]

ErrorTexts == { <<>>, <<"o","o","p","s">> }

\* what the provider call can do, for a variant, a key and a set of bodies
Outcomes(v, env, bodies) ==
    IF ~UsableKey(env)
    THEN {Raised(<<"Error code: 401">>)}
    ELSE {Raised(<<"timed out">>), Raised(<<"connection refused">>)}
         \cup (IF v = "grok"
               THEN {Responded(st, tx, "ok", <<>>) : st \in {201, 500}, tx \in ErrorTexts}
               ELSE {})
         \cup {Responded(200, <<>>, sh, <<>>) : sh \in BadShapes(v)}
         \cup {Responded(200, b, "ok", b) : b \in bodies}

CritA == <<"k","i","n","d">>
CritB == <<"t","a","l","l">>
Criteria == {CritA, CritB}
OcrText == <<"b","i","o">>
DirPath == <<"/","p">>
SessionPhotosPath == <<"/","s","/","p","h","o","t","o","s">>

Args(test, dir, output, aesthetic, criterion, model, text) ==
    [test_session |-> test, photos_dir |-> dir, output |-> output,
     aesthetic |-> aesthetic, criterion |-> criterion, model |-> model, text |-> text]

\* the command lines and calls of the model
MainArgs ==
    { Args(FALSE, TRUE, TRUE, FALSE, CritA, GrokDefaultModel, PyNone),
      Args(FALSE, TRUE, TRUE, TRUE,  CritB, GPT4O, PyStr(OcrText)),
      Args(FALSE, TRUE, FALSE, FALSE, CritA, GrokDefaultModel, PyNone),
      Args(FALSE, FALSE, TRUE, FALSE, CritA, GrokDefaultModel, PyNone),
      Args(TRUE, FALSE, FALSE, FALSE, CritB, GrokDefaultModel, PyNone) }
CallArgs ==
    { Args(FALSE, TRUE, TRUE, FALSE, CritA, GrokDefaultModel, PyNone),
      Args(FALSE, TRUE, TRUE, TRUE,  CritB, GPT4O, PyStr(OcrText)) }

File(name, size, readable) == [name |-> name, size_mb |-> size, readable |-> readable]
Files ==
    { File(<<"a",".","j","p","g">>, 1, TRUE),
      File(<<"b",".","P","N","G">>, 2, TRUE),
      File(<<"c","_","D","U","P","L","I","C","A","T","E",".","j","p","g">>, 1, TRUE),
      File(<<"d",".","t","x","t">>, 1, TRUE),
      File(<<"e",".","j","p","e","g">>, 3, FALSE) }

\* the listings of at most MaxPhotos distinct entries
Listings ==
    UNION { {l \in [1..n -> Files] : \A i, j \in 1..n : i # j => l[i] # l[j]}
            : n \in 0..MaxPhotos }

Fs(session, dir, person, files) ==
    [session |-> session, photos_dir |-> dir, person |-> person, files |-> files]
FsStates ==
    { Fs(FALSE, FALSE, FALSE, <<>>), Fs(TRUE, FALSE, FALSE, <<>>),
      Fs(TRUE, TRUE, FALSE, <<>>) }
    \cup {Fs(TRUE, TRUE, TRUE, l) : l \in Listings}

Environs == {PyNone, PyStr(<<>>), PyStr(<<" ">>), PyStr(<<"k">>)}

\* the photo lists handed to analyze_profile when it is called directly
PhotoLists ==
    { [i \in 1..n |-> [filename |-> <<DigitChars[i + 1], ".", "j", "p", "g">>,
                       size_mb |-> i]] : n \in 0..MaxPhotos }

(***************************************************************************)
(* The state: one run of the program, entered at main, at                  *)
(* process_session_photos or at analyze_profile.                           *)
(***************************************************************************)
VARIABLES
    variant,    \* "grok" or "openai": which of the two source files runs
    entry,      \* the function the run enters
    args,       \* the command line, or the arguments of the call
    fs,         \* the directories and the files of the person folder
    environ,    \* the value of the credential's environment variable
    pc,         \* where the run is
    photos,     \* the list load_photos_from_directory returned
    outcome,    \* what the provider call did
    result,     \* the record being built, then returned
    raised,     \* str(e) of an exception on its way up, else PyNone
    outFile,    \* the file at the output path
    infoFile,   \* whether test_info.json was written
    events,     \* the input and output operations, in order
    exitCode,   \* the exit status of the process, -1 while it runs
    request     \* the payload of the provider call, once it was made

vars == <<variant, entry, args, fs, environ, pc, photos, outcome, result,
          raised, outFile, infoFile, events, exitCode, request>>

NoFile == [st |-> "absent", doc |-> EmptyDict]

\* payload: the model, and one user message of the prompt text followed by
\* one image part for each photo
NoRequest == [sent |-> FALSE, model |-> <<>>, prompt |-> <<>>, images |-> 0]
Request(v, photos_, criterion, model, ocr) ==
    [sent |-> TRUE, model |-> model, prompt |-> FullPrompt(v, criterion, ocr),
     images |-> Len(photos_)]

Init ==
    /\ variant \in {"grok", "openai"}
    /\ entry \in {"main", "process_session_photos", "analyze_profile"}
    /\ args \in (IF entry = "main" THEN MainArgs ELSE CallArgs)
    /\ fs \in (IF entry = "analyze_profile" THEN {Fs(TRUE, TRUE, TRUE, <<>>)} ELSE FsStates)
    /\ environ \in (IF entry = "analyze_profile" THEN {PyStr(<<"k">>)} ELSE Environs)
    /\ photos \in (IF entry = "analyze_profile" THEN PhotoLists ELSE {<<>>})
    /\ pc = "start"
    /\ outcome = BlankOutcome
    /\ result = EmptyDict
    /\ raised = PyNone
    /\ outFile = NoFile
    /\ infoFile = FALSE
    /\ events = <<>>
    /\ exitCode = -1
    /\ request = NoRequest

InTestMode == entry = "main" /\ args.test_session

\* the arguments process_session_photos runs with
Criterion == args.criterion
Model == IF variant = "grok" THEN args.model ELSE GPT4O
Aesthetic == IF InTestMode THEN FALSE ELSE args.aesthetic
OcrArg == IF variant = "grok" /\ ~InTestMode THEN args.text ELSE PyNone
PhotosDirPath == IF InTestMode THEN SessionPhotosPath ELSE DirPath

ErrorDict(msg) == MkDict(<< <<K_error, PyStr(msg)>> >>)

\* main: parse the arguments and dispatch
Main ==
    /\ pc = "start" /\ entry = "main"
    /\ IF args.test_session
       THEN pc' = "test" /\ UNCHANGED exitCode
       ELSE IF ~args.photos_dir \/ ~args.output
       THEN pc' = "exited" /\ exitCode' = 2        \* parser.error
       ELSE pc' = "construct" /\ UNCHANGED exitCode
    /\ UNCHANGED <<request, variant, entry, args, fs, environ, photos, outcome, result,
                   raised, outFile, infoFile, events>>

\* test_existing_session, up to its call of process_session_photos
TestExistingSession ==
    /\ pc = "test"
    /\ IF ~fs.session
       THEN /\ result' = ErrorDict(<<"Session not found">>)
            /\ pc' = "print" /\ UNCHANGED events
       ELSE IF ~fs.photos_dir
       THEN /\ result' = ErrorDict(<<"Photos directory not found">>)
            /\ pc' = "print" /\ UNCHANGED events
       ELSE /\ events' = Append(events, "mkdir")
            /\ pc' = "construct" /\ UNCHANGED result
    /\ UNCHANGED <<request, variant, entry, args, fs, environ, photos, outcome,
                   raised, outFile, infoFile, exitCode>>

\* a direct call of process_session_photos
CallProcess ==
    /\ pc = "start" /\ entry = "process_session_photos"
    /\ pc' = "construct"
    /\ UNCHANGED <<request, variant, entry, args, fs, environ, photos, outcome, result,
                   raised, outFile, infoFile, events, exitCode>>

\* processor = Hinge...Processor()
Construct ==
    /\ pc = "construct"
    /\ IF ConstructRaises(variant, environ)
       THEN raised' = PyStr(ConstructMsg(variant)) /\ pc' = "unwind"
       ELSE pc' = "load" /\ UNCHANGED raised
    /\ UNCHANGED <<request, variant, entry, args, fs, environ, photos, outcome, result,
                   outFile, infoFile, events, exitCode>>

\* photos = processor.load_photos_from_directory(...); the empty case
LoadPhotos ==
    /\ pc = "load"
    /\ photos' = LoadPhotosFromDirectory(fs)
    /\ events' = Append(events, "load")
    /\ IF Len(photos') = 0
       THEN result' = EmptyInputRecord(variant, Criterion, Model, fs) /\ pc' = "save"
       ELSE pc' = "post" /\ UNCHANGED result
    /\ UNCHANGED <<request, variant, entry, args, fs, environ, outcome, raised, outFile,
                   infoFile, exitCode>>

\* a direct call of analyze_profile: the empty case returns at once
CallAnalyze ==
    /\ pc = "start" /\ entry = "analyze_profile"
    /\ IF Len(photos) = 0
       THEN /\ result' = AnalyzeProfile(variant, photos, Criterion, Model, OcrArg, BlankOutcome)
            /\ pc' = "done"
       ELSE pc' = "post" /\ UNCHANGED result
    /\ UNCHANGED <<request, variant, entry, args, fs, environ, photos, outcome, raised,
                   outFile, infoFile, events, exitCode>>

\* the bodies a provider may answer with: a direct call of analyze_profile
\* is also tried on every short text
PostBodies ==
    IF entry = "analyze_profile" THEN SampleBodies \cup ShortBodies ELSE SampleBodies

\* a variant of Post that repeats the call once after a transport failure
Post_RetryOnce ==
    /\ pc = "post"
    /\ \E out \in Outcomes(variant, environ, PostBodies) :
          /\ request' = Request(variant, photos, Criterion, Model, OcrArg)
          /\ outcome' = out
          /\ result' = AnalyzeProfile(variant, photos, Criterion, Model, OcrArg, out)
          /\ events' = IF out.kind = "raise"
                       THEN events \o <<"net", "net">> ELSE Append(events, "net")
    /\ pc' = IF entry = "analyze_profile" THEN "done" ELSE "analyzed"
    /\ UNCHANGED <<variant, entry, args, fs, environ, photos, raised, outFile,
                   infoFile, exitCode>>

\* analyze_profile on a non-empty list: the one provider call and the record
\* built from what it did
Post ==
    /\ pc = "post"
    /\ \E out \in Outcomes(variant, environ, PostBodies) :
          /\ request' = Request(variant, photos, Criterion, Model, OcrArg)
          /\ outcome' = out
          /\ result' = AnalyzeProfile(variant, photos, Criterion, Model, OcrArg, out)
    /\ events' = Append(events, "net")
    /\ pc' = IF entry = "analyze_profile" THEN "done" ELSE "analyzed"
    /\ UNCHANGED <<variant, entry, args, fs, environ, photos, raised, outFile,
                   infoFile, exitCode>>

\* process_session_photos: the metadata added to the record
Assemble ==
    /\ pc = "analyzed"
    /\ result' = AddMetadata(result, photos, Criterion, PhotosDirPath, fs)
    /\ pc' = "save"
    /\ UNCHANGED <<request, variant, entry, args, fs, environ, photos, outcome, raised,
                   outFile, infoFile, events, exitCode>>

\* a variant of Save that returns early, without writing, when no photo was loaded
Save_SkipEmpty ==
    /\ pc = "save"
    /\ IF Len(photos) = 0
       THEN UNCHANGED <<outFile, events>>
       ELSE /\ outFile' = [st |-> "json", doc |-> result]
            /\ events' = Append(events, "write")
    /\ pc' = "return"
    /\ UNCHANGED <<request, variant, entry, args, fs, environ, photos, outcome, result,
                   raised, infoFile, exitCode>>

\* a variant of Save whose failure replaces the record by an error record
Save_FailureReturnsError ==
    /\ pc = "save"
    /\ \E how \in {"ok", "open_failed", "dump_failed"} :
          /\ outFile' = CASE how = "ok" -> [st |-> "json", doc |-> result]
                          [] how = "dump_failed" -> [st |-> "partial", doc |-> EmptyDict]
                          [] OTHER -> outFile
          /\ events' = Append(events, IF how = "ok" THEN "write" ELSE "write_failed")
          /\ result' = IF how = "ok" THEN result
                       ELSE ErrorDict(<<"Failed to save results">>)
    /\ pc' = "return"
    /\ UNCHANGED <<request, variant, entry, args, fs, environ, photos, outcome,
                   raised, infoFile, exitCode>>

\* try: open(output_path, "w"); json.dump(result, f) except Exception: print
\* open may fail (the file is not touched), the dump may fail (a partial
\* document is left); neither changes the record returned
Save ==
    /\ pc = "save"
    /\ \E how \in {"ok", "open_failed", "dump_failed"} :
          /\ outFile' = CASE how = "ok" -> [st |-> "json", doc |-> result]
                          [] how = "dump_failed" -> [st |-> "partial", doc |-> EmptyDict]
                          [] OTHER -> outFile
          /\ events' = Append(events, IF how = "ok" THEN "write" ELSE "write_failed")
    /\ pc' = "return"
    /\ UNCHANGED <<request, variant, entry, args, fs, environ, photos, outcome, result,
                   raised, infoFile, exitCode>>

\* process_session_photos returns result; in test mode test_existing_session
\* then writes test_info.json, and a failure there replaces the result
Return ==
    /\ pc = "return"
    /\ IF entry = "process_session_photos"
       THEN pc' = "done" /\ UNCHANGED <<result, infoFile, events>>
       ELSE IF ~InTestMode
       THEN pc' = "print" /\ UNCHANGED <<result, infoFile, events>>
       ELSE /\ pc' = "print"
            /\ \/ infoFile' = TRUE /\ events' = Append(events, "info")
                  /\ UNCHANGED result
               \/ result' = ErrorDict(<<"cannot write test_info.json">>)
                  /\ UNCHANGED <<infoFile, events>>
    /\ UNCHANGED <<request, variant, entry, args, fs, environ, photos, outcome, raised,
                   outFile, exitCode>>

\* the ValueError of the constructor on its way up
Unwind ==
    /\ pc = "unwind"
    /\ IF entry = "process_session_photos"
       THEN pc' = "done" /\ UNCHANGED <<result, raised, exitCode>>
       ELSE IF InTestMode
       THEN \* except Exception as e: return {"error": str(e)}
            /\ result' = ErrorDict(raised.s) /\ raised' = PyNone
            /\ pc' = "print" /\ UNCHANGED exitCode
       ELSE \* except Exception as e: ...; sys.exit(1)
            /\ raised' = PyNone /\ exitCode' = 1
            /\ pc' = "exited" /\ UNCHANGED result
    /\ UNCHANGED <<request, variant, entry, args, fs, environ, photos, outcome, outFile,
                   infoFile, events>>

\* main prints the result and the process ends
PrintResult ==
    /\ pc = "print"
    /\ exitCode' = IF ~Aesthetic /\ PrintRaises(result)
                   THEN 1 ELSE 0
    /\ pc' = "exited"
    /\ UNCHANGED <<request, variant, entry, args, fs, environ, photos, outcome, result,
                   raised, outFile, infoFile, events>>

Next ==
    \/ Main
    \/ TestExistingSession
    \/ CallProcess
    \/ Construct
    \/ LoadPhotos
    \/ CallAnalyze
    \/ Post
    \/ Assemble
    \/ Save
    \/ Return
    \/ Unwind
    \/ PrintResult

Spec == Init /\ [][Next]_vars

(***************************************************************************)
(* Properties.                                                             *)
(***************************************************************************)
\* analyze_profile has just returned result
APReturned == pc = "analyzed" \/ (entry = "analyze_profile" /\ pc = "done")

\* process_session_photos returns result
PSPReturned ==
    \/ pc = "return"
    \/ entry = "process_session_photos" /\ pc = "done" /\ raised = PyNone

\* the provider call succeeded: a response with status 200
CallSucceeded == outcome.kind = "response" /\ outcome.status = 200

\* ... and the message content could be read
ContentRead == CallSucceeded /\ outcome.shape = "ok"

\* the provider call failed in transport: it raised, or (grok) the status is not 200
TransportFailed ==
    \/ outcome.kind = "raise"
    \/ variant = "grok" /\ outcome.kind = "response" /\ outcome.status # 200

Decisions == {PyStr(YES), PyStr(NO), PyStr(ERROR)}

\* C1: every record analyze_profile returns has a 'decision' key whose value
\* is one of YES, NO, ERROR, whatever the provider did (the claim as stated).
C1_DecisionAlwaysEnumerated ==
    APReturned => Has(result, K_decision) /\ result[K_decision] \in Decisions

\* C2: with an empty image sequence analyze_profile and
\* process_session_photos return decision NO and photo_count 0, for every
\* criterion, and no provider call was made.
C2_EmptyInputIsNo ==
    (APReturned \/ PSPReturned) /\ Len(photos) = 0 =>
        /\ result[K_decision] = PyStr(NO)
        /\ result[K_photo_count] = PyInt(0)
        /\ \A i \in DOMAIN events : events[i] # "net"

C2_Witness ==
    /\ PSPReturned /\ Len(photos) = 0 /\ fs.person /\ Len(fs.files) > 0
    /\ args.criterion = CritB
    /\ result[K_decision] = PyStr(NO)

\* C3: when the call succeeds and the body parses as a JSON object, the
\* photo_count returned is the number of images submitted, and decision,
\* reasoning and confidence are those of the body (absent when absent there).
C3_ParsedObjectAdopted ==
    APReturned /\ ContentRead /\ IsDict(JsonLoads(outcome.content)) =>
        LET d == JsonLoads(outcome.content).d
        IN  /\ result[K_photo_count] = PyInt(Len(photos))
            /\ \A k \in {K_decision, K_reasoning, K_confidence} :
                  /\ Has(result, k) <=> Has(d, k)
                  /\ Has(d, k) => result[k] = d[k]

C3_Witness ==
    /\ APReturned /\ outcome.content = BodyFull /\ CallSucceeded
    /\ Len(photos) = 2
    /\ result[K_photo_count] = PyInt(2)
    /\ result[K_confidence] = PyFloat(<<"0",".","9">>)

\* C4 as stated: when the call succeeds and the body is not parseable, the
\* record has decision YES exactly when the upper-cased body contains YES,
\* else NO, reasoning equal to the body text, confidence 0.5 and photo_count
\* the number of images submitted.
C4_FallbackVerbatim ==
    APReturned /\ ContentRead /\ ~JsonLoads(outcome.content).ok =>
        /\ result[K_decision] =
              PyStr(IF Contains(Upper(outcome.content), YES) THEN YES ELSE NO)
        /\ result[K_reasoning] = PyStr(outcome.content)
        /\ result[K_confidence] = PyFloat(HALF)
        /\ result[K_photo_count] = PyInt(Len(photos))

\* C4 amended: the same, with reasoning equal to the body text with its
\* leading and trailing whitespace removed.
C4_FallbackStripped ==
    APReturned /\ ContentRead /\ ~JsonLoads(outcome.content).ok =>
        /\ result[K_decision] =
              PyStr(IF Contains(Upper(outcome.content), YES) THEN YES ELSE NO)
        /\ result[K_reasoning] = PyStr(Strip(outcome.content))
        /\ result[K_confidence] = PyFloat(HALF)
        /\ result[K_photo_count] = PyInt(Len(photos))

C4_Witness ==
    /\ APReturned /\ ContentRead /\ outcome.content = BodyPadded
    /\ result[K_decision] = PyStr(YES)
    /\ result[K_reasoning] = PyStr(<<"y", "E", "s">>)

\* C5: after a successful call, every fault in parsing the body or reading
\* its fields (not JSON, JSON that is no object, an envelope without
\* choices/message/content) gives the fallback record: YES or NO by the
\* substring rule, confidence 0.5, never ERROR and no 'error' key (the claim
\* as stated).
C5_FaultsFallBack ==
    APReturned /\ CallSucceeded
      /\ (outcome.shape # "ok" \/ ~IsDict(JsonLoads(outcome.content))) =>
        /\ result[K_decision] \in {PyStr(YES), PyStr(NO)}
        /\ Has(result, K_confidence) /\ result[K_confidence] = PyFloat(HALF)
        /\ ~Has(result, K_error)

\* C6: for a non-empty image sequence every transport failure makes
\* analyze_profile return a record with decision ERROR, an 'error' key with
\* the failure detail (for a status that is not 200: the status code and the
\* response body) and photo_count the number of images attempted.
C6_TransportFailureIsError ==
    APReturned /\ Len(photos) > 0 /\ TransportFailed =>
        /\ raised = PyNone
        /\ result[K_decision] = PyStr(ERROR)
        /\ Has(result, K_error) /\ result[K_error].t = "str"
        /\ IF outcome.kind = "raise"
           THEN result[K_error].s = outcome.msg
           ELSE /\ Contains(result[K_error].s, IntToStr(outcome.status))
                /\ Contains(result[K_error].s, outcome.text)
        /\ result[K_photo_count] = PyInt(Len(photos))

C6_Witness ==
    /\ APReturned /\ variant = "grok" /\ Len(photos) = 2
    /\ outcome.kind = "response" /\ outcome.status = 500
    /\ outcome.text = <<"o","o","p","s">>
    /\ result[K_decision] = PyStr(ERROR)

\* the run has ended (a run entered at main or at process_session_photos)
Ended == pc \in {"done", "exited"} /\ entry # "analyze_profile"

LastEvent == IF Len(events) = 0 THEN "" ELSE events[Len(events)]

\* C7 as stated: every path through process_session_photos and through the
\* CLI, but for the rejected command line, ends with a well-formed JSON
\* result record at the output path.
C7_EveryPathPersists ==
    Ended /\ exitCode # 2 => outFile.st = "json"

\* C7 amended: every return of process_session_photos follows one attempt to
\* write the output file, and when that write succeeded the file holds the
\* returned record as a well-formed document (the empty-input,
\* transport-failure and malformed-output paths included); a run that ends
\* without a successful write (write failure, missing credential, missing
\* session) leaves no well-formed record at the output path.
C7_PersistedWhenWritten ==
    /\ PSPReturned =>
          /\ LastEvent \in {"write", "write_failed"}
          /\ LastEvent = "write" => outFile = [st |-> "json", doc |-> result]
    /\ Ended /\ (\A i \in DOMAIN events : events[i] # "write") => outFile.st # "json"

C7_Witness ==
    /\ PSPReturned /\ Len(photos) > 0 /\ outcome.kind = "raise"
    /\ outFile.st = "json"
    /\ outFile.doc[K_decision] = PyStr(ERROR)
    /\ Has(outFile.doc, K_photos_processed)

\* C8: in every record process_session_photos returns after a provider
\* response, criterion, prompt, model, provider identifier, timestamp and
\* photos_processed hold the values the caller computed, whatever the body
\* held (the claim as stated; a key that is absent is not counted against it).
C8_LocalMetadataWins ==
    PSPReturned /\ Len(photos) > 0 /\ outcome.kind = "response" =>
        LET local == MkDict(<<
                <<K_criterion, PyStr(Criterion)>>,
                <<K_prompt, PyStr(FullPrompt(variant, Criterion, OcrArg))>>,
                <<K_model, PyStr(Model)>>,
                <<K_api_provider,
                  PyStr(IF variant = "grok" THEN GROK ELSE <<"o","p","e","n","a","i">>)>>,
                <<K_timestamp, Timestamp(fs)>>,
                <<K_photos_processed, PhotosProcessed(photos)>> >>)
        IN  \A k \in DOMAIN local : Has(result, k) => result[k] = local[k]

\* C9: every record process_session_photos returns has the keys criterion,
\* prompt, model, api_provider, photos_processed, timestamp and
\* input_photos_dir (the claim as stated).
C9_AllMetadataKeys ==
    PSPReturned =>
        {K_criterion, K_prompt, K_model, K_api_provider, K_photos_processed,
         K_timestamp, K_input_photos_dir} \subseteq DOMAIN result

Rank(e) ==
    CASE e = "mkdir" -> 0
      [] e = "load"  -> 1
      [] e = "net"   -> 2
      [] e \in {"write", "write_failed"} -> 3
      [] OTHER       -> 4

C11_WriteFailureStillReturns ==
    PSPReturned /\ LastEvent = "write_failed" =>
        /\ raised = PyNone
        /\ result = RunResult(variant, Criterion, Model, OcrArg, PhotosDirPath, fs, outcome)

C11_Witness ==
    /\ PSPReturned /\ LastEvent = "write_failed" /\ outFile.st = "partial"
    /\ Len(photos) = 2 /\ outcome.content = BodyFull /\ CallSucceeded
    /\ result[K_decision] = PyStr(YES)
    /\ Has(result, K_input_photos_dir)

\* C12: with the credential absent (the environment variable unset, empty or
\* blank) the constructor raises, and process_session_photos gets to no
\* directory read, no provider call and no write of the output file (the
\* claim as stated).
C12_AbsentCredentialRaisesFirst ==
    entry # "analyze_profile" /\ ~UsableKey(environ) =>
        /\ pc \notin {"load", "post", "analyzed", "save", "return"}
        /\ \A i \in DOMAIN events :
              events[i] \notin {"load", "net", "write", "write_failed"}

\* C13: in both variants the prompt text sent to the provider embeds the
\* criterion: a call that differs only in the criterion sends a different
\* prompt text (the claim as stated).
C13_PromptEmbedsCriterion ==
    request.sent =>
        /\ request.prompt = FullPrompt(variant, Criterion, OcrArg)
        /\ Contains(request.prompt, Criterion)
        /\ \A other \in Criteria \ {Criterion} :
              Request(variant, photos, other, Model, OcrArg).prompt # request.prompt

\* the load has run
Loaded == \E i \in DOMAIN events : events[i] = "load"

\* C14: the loader returns, in listing order, exactly one record for each
\* entry of the person folder whose name ends, in any letter case, with one of
\* .jpg .jpeg .png .gif .webp, does not contain the duplicate marker and can
\* be read; an unreadable entry is skipped and the others are still loaded; a
\* missing person folder gives the empty list; nothing is raised.
C14_LoaderSelects ==
    Loaded =>
        LET HasExt(f) ==
                \E e \in SupportedFormats :
                    /\ Len(f.name) > Len(e)
                    /\ Lower(SubSeq(f.name, Len(f.name) - Len(e) + 1, Len(f.name))) = e
            Wanted(f) ==
                HasExt(f) /\ ~Contains(f.name, DuplicateMarker) /\ f.readable
            kept == SelectSeq(fs.files, Wanted)
        IN  /\ raised = PyNone
            /\ ~fs.person => photos = <<>>
            /\ fs.person =>
                  photos = [i \in 1..Len(kept) |->
                              [filename |-> kept[i].name, size_mb |-> kept[i].size_mb]]

C14_Witness ==
    /\ Loaded /\ Len(fs.files) = 2
    /\ ~fs.files[1].readable
    /\ Len(photos) = 1
    /\ photos[1].filename = <<"b", ".", "P", "N", "G">>

\* regular mode without --photos-dir or without --output
MissingPath == ~args.test_session /\ (~args.photos_dir \/ ~args.output)

\* the run got to the constructor and the constructor raised
ConstructorRaised ==
    /\ IF args.test_session THEN fs.session /\ fs.photos_dir ELSE ~MissingPath
    /\ ConstructRaises(variant, environ)

\* C15: the command line program exits with a code that is not zero when a
\* required path argument is missing in regular mode, or when an error is not
\* handled by the pipeline (the missing credential, in regular mode and in
\* test mode alike); in every other case it exits with zero (the claim as
\* stated).
C15_ExitCodes ==
    entry = "main" /\ pc = "exited" =>
        (exitCode # 0 <=>
            \/ MissingPath
            \/ ConstructorRaised
            \/ ~Aesthetic /\ PrintRaises(result))

\* a parsed number lies in the closed range 0 to 1.  A float keeps the text
\* of its literal: digits, a point, digits (the bodies of the model hold no
\* exponent, for which only a zero is recognised)
InUnitRange(x) ==
    CASE x.t = "int"   -> x.n \in {0, 1}
      [] x.t = "float" ->
            LET lit == x.s
                point == {i \in 1..Len(lit) : lit[i] = "."}
            IN  IF FloatIsZero(lit) THEN TRUE
                ELSE IF lit[1] = "-" \/ point = {} \/ lit[1] \notin DigitSet THEN FALSE
                ELSE LET p == CHOOSE i \in point : TRUE
                         whole == StrToInt(SubSeq(lit, 1, p - 1))
                     IN  /\ \A i \in p + 1..Len(lit) : lit[i] \in DigitSet
                         /\ \/ whole = 0
                            \/ whole = 1 /\ \A i \in p + 1..Len(lit) : lit[i] = "0"
      [] OTHER -> FALSE

\* C16: in every record analyze_profile returns, confidence, when present,
\* is a number between 0 and 1, also when it is adopted from a body that
\* parsed as a JSON object (the claim as stated).
C16_ConfidenceInUnitRange ==
    APReturned /\ Has(result, K_confidence) => InUnitRange(result[K_confidence])

\* C17: a second invocation of process_session_photos on the same directory
\* contents with the same criterion returns the same photos_processed and the
\* same photo_count as this one, whatever the provider does in the second
\* run (a transport failure, a malformed envelope, a body that is an object
\* with a count and a manifest of its own, a body that is no object, prose).
C17_ManifestIndependentOfProvider ==
    pc = "return" =>
        LET loadedAgain == LoadPhotosFromDirectory(fs)
        IN  \A again \in Outcomes(variant, environ, SecondRunBodies) :
                LET second == BuildResult(variant, loadedAgain, Criterion, Model,
                                          OcrArg, PhotosDirPath, fs, again)
                IN  /\ second[K_photos_processed] = result[K_photos_processed]
                    /\ second[K_photo_count] = result[K_photo_count]

C17_Witness ==
    /\ PSPReturned /\ Len(photos) = 2
    /\ outcome.content = BodyEcho /\ CallSucceeded
    /\ result[K_photo_count] = PyInt(2)
    /\ Len(result[K_photos_processed].items) = 2

\* C18: in every record process_session_photos returns, photo_count is the
\* length of photos_processed, and photos_processed lists the loaded images
\* in load order.
C18_CountMatchesManifest ==
    PSPReturned =>
        /\ result[K_photos_processed] = PhotosProcessed(photos)
        /\ result[K_photos_processed].items =
              [i \in 1..Len(photos) |->
                  [filename |-> photos[i].filename, size_mb |-> photos[i].size_mb]]
        /\ result[K_photo_count] = PyInt(Len(result[K_photos_processed].items))

C18_Witness ==
    /\ PSPReturned /\ TransportFailed /\ request.sent
    /\ Len(photos) = 2 /\ photos[1].filename = <<"b", ".", "P", "N", "G">>
    /\ result[K_photo_count] = PyInt(2)
    /\ result[K_photos_processed].items[2].filename = <<"a", ".", "j", "p", "g">>

====
